---- MODULE Spec2Model ----
(***************************************************************************)
(* Model of the OPTCG collector backend (src/main.py, src/schemas.py).     *)
(*                                                                         *)
(* Strings are sequences: a text is a sequence of one-character strings,   *)
(* a URL / file name is a sequence of atomic tokens ("?" is a token of its *)
(* own, so that split("?") is computed, not assumed).  Optional[X] is a    *)
(* sequence of length 0 (None) or 1 (the value).                           *)
(***************************************************************************)
EXTENDS Integers, Sequences, FiniteSets, TLC

VARIABLES store, files, req, resp, fetched

vars == <<store, files, req, resp, fetched>>

-----------------------------------------------------------------------------
(* Bounds of the model *)

\* rows of a generated search page
MaxRows == 2
\* rows of the long search page (more than the 48 of the spec's cap)
MaxLong == 49
\* rows of a search page used as image-search candidates
MaxCandRows == 2
\* entries the collection store may hold
MaxEntries == 2

-----------------------------------------------------------------------------
(* Optional values and Python string primitives *)

None == <<>>

Some(x) == <<x>>

\* str.upper(), per character
UpperChar(c) ==
    CASE c = "o" -> "O" [] c = "p" -> "P" [] c = "s" -> "S" [] c = "t" -> "T"
      [] c = "x" -> "X" [] c = "u" -> "U" [] c = "d" -> "D" [] c = "e" -> "E"
      [] c = "r" -> "R" [] c = "g" -> "G" [] c = "b" -> "B"
      [] OTHER -> c

upper(s) == [i \in 1..Len(s) |-> UpperChar(s[i])]

IsDigit(c) == c \in {"0", "1", "5", "9"}

\* str.strip(): leading and trailing whitespace removed
RECURSIVE lstrip(_)
lstrip(s) == IF s # <<>> /\ Head(s) = " " THEN lstrip(Tail(s)) ELSE s

RECURSIVE rstrip(_)
rstrip(s) ==
    IF s # <<>> /\ s[Len(s)] = " " THEN rstrip(SubSeq(s, 1, Len(s) - 1)) ELSE s

strip(s) == rstrip(lstrip(s))

\* s.split("?")[0] on a token sequence: everything before the first "?"
RECURSIVE split_query_0(_)
split_query_0(s) ==
    IF s = <<>> \/ Head(s) = "?" THEN <<>> ELSE <<Head(s)>> \o split_query_0(Tail(s))

\* substring tests of the CSS attribute selectors a[href*='...']
href_has_products(h) == \E i \in 1..Len(h) : h[i] = "/en/OnePiece/Products"

href_has_onepiece(h) ==
    \E i \in 1..Len(h) : h[i] \in {"/en/OnePiece/Products", "/en/OnePiece"}

\* requests.utils.quote: percent-encoding, per character
quote(q) == [i \in 1..Len(q) |-> IF q[i] = " " THEN "%20" ELSE q[i]]

\* re.search(r"OP\d{2}-\d{3}", text, re.IGNORECASE): match starting at i
idcode_match_at(t, i) ==
    /\ i + 7 <= Len(t)
    /\ UpperChar(t[i]) = "O" /\ UpperChar(t[i + 1]) = "P"
    /\ IsDigit(t[i + 2]) /\ IsDigit(t[i + 3])
    /\ t[i + 4] = "-"
    /\ IsDigit(t[i + 5]) /\ IsDigit(t[i + 6]) /\ IsDigit(t[i + 7])

\* m.group(0) of the leftmost match, or None
re_search_idcode(t) ==
    LET hits == {i \in 1..Len(t) : idcode_match_at(t, i)}
    IN  IF hits = {} THEN None
        ELSE LET i == CHOOSE k \in hits : \A j \in hits : k <= j
             IN  Some(SubSeq(t, i, i + 7))

-----------------------------------------------------------------------------
(* The search page: the rows the CSS selectors see.  A row carries its     *)
(* container class, its anchors (href, text), its img elements and the     *)
(* text that follows the anchors.                                          *)

BASE_URL == "https://www.cardmarket.com"

\* Tag.get_text(" ", strip=True): stripped non-empty text nodes joined by " "
RECURSIVE join_text(_)
join_text(nodes) ==
    IF nodes = <<>> THEN <<>>
    ELSE LET h == strip(Head(nodes))
             r == join_text(Tail(nodes))
         IN  IF h = <<>> THEN r
             ELSE IF r = <<>> THEN h
             ELSE h \o <<" ">> \o r

row_text(row) ==
    join_text([i \in 1..Len(row.anchors) |-> row.anchors[i].text] \o <<row.tail>>)

\* soup.select(".table-body .row, .product-list .row"), else ".search-results .row"
product_rows(html) ==
    LET primary == SelectSeq(html, LAMBDA r : r.cls \in {"table-body", "product-list"})
    IN  IF primary # <<>> THEN primary
        ELSE SelectSeq(html, LAMBDA r : r.cls = "search-results")

\* row.select_one(A) or row.select_one(B): the first Products anchor, else the
\* first OnePiece anchor, else None
row_link(row) ==
    LET a == SelectSeq(row.anchors, LAMBDA x : href_has_products(x.href))
        b == SelectSeq(row.anchors, LAMBDA x : href_has_onepiece(x.href))
    IN  IF a # <<>> THEN Some(Head(a))
        ELSE IF b # <<>> THEN Some(Head(b))
        ELSE None

\* "https://www.cardmarket.com" + link.get("href").split("?")[0]
resolve_href(h) == <<BASE_URL>> \o split_query_0(h)

\* img = row.select_one("img"); data-src preferred over src; "" is falsy
row_img_url(row) ==
    IF row.imgs = <<>> THEN None
    ELSE LET img == Head(row.imgs)
         IN  IF img.data_src # None /\ img.data_src[1] # <<>> THEN img.data_src
             ELSE IF img.src # None /\ img.src[1] # <<>> THEN img.src
             ELSE None

\* str.lower() of a title, per word
LowerWord(w) ==
    CASE w = "English" -> "english" [] w = "ENGLISH" -> "english"
      [] w = "Japanese" -> "japanese" [] w = "German" -> "german"
      [] OTHER -> w

\* row.select_one(".product-attributes img[title]") and the language heuristic
row_language(row) ==
    LET els == SelectSeq(row.imgs, LAMBDA g : g.attrs /\ g.title # None)
    IN  IF els = <<>> THEN None
        ELSE LET title == [i \in 1..Len(els[1].title[1]) |-> LowerWord(els[1].title[1][i])]
             IN  IF \E i \in 1..Len(title) : title[i] = "english" THEN Some("EN")
                 ELSE IF \E i \in 1..Len(title) : title[i] = "japanese" THEN Some("JP")
                 ELSE None

\* variant: the match is kept in the case it was found in
row_id_code_NoUpper(row) == re_search_idcode(row_text(row))

row_id_code(row) ==
    LET m == re_search_idcode(row_text(row))
    IN  IF m = None THEN None ELSE Some(upper(m[1]))

\* the SearchResult built from one row that has a link
row_result(row) ==
    LET link == row_link(row)[1]
        nm   == strip(link.text)
    IN  [id_code    |-> row_id_code(row),
         name       |-> IF nm = <<>> THEN None ELSE Some(nm),
         language   |-> row_language(row),
         image_url  |-> row_img_url(row),
         source_url |-> resolve_href(link.href),
         source     |-> "cardmarket"]

RECURSIVE parse_rows(_)
parse_rows(rows) ==
    IF rows = <<>> THEN <<>>
    ELSE IF row_link(Head(rows)) = None THEN parse_rows(Tail(rows))
    ELSE <<row_result(Head(rows))>> \o parse_rows(Tail(rows))

\* variant: a listing whose source_url was already produced is skipped
RECURSIVE dedup_by_source_url(_, _)
dedup_by_source_url(rs, seen) ==
    IF rs = <<>> THEN <<>>
    ELSE IF Head(rs).source_url \in seen THEN dedup_by_source_url(Tail(rs), seen)
    ELSE <<Head(rs)>> \o dedup_by_source_url(Tail(rs), seen \cup {Head(rs).source_url})

parse_cardmarket_search_Dedup(html) ==
    dedup_by_source_url(parse_rows(product_rows(html)), {})

\* variant: the list is cut to its first 48 entries
parse_cardmarket_search_Capped(html) ==
    LET rs == parse_rows(product_rows(html))
    IN  SubSeq(rs, 1, IF Len(rs) < 48 THEN Len(rs) ELSE 48)

parse_cardmarket_search(html) == parse_rows(product_rows(html))

-----------------------------------------------------------------------------
(* Inputs: texts, link targets, rows and pages the environment may serve *)

T_OP05 == <<"O", "P", "0", "5", "-", "1", "1", "9">>

T_op05 == <<"o", "p", "0", "5", "-", "1", "1", "9">>

T_op09 == <<"o", "P", "0", "9", "-", "0", "0", "1">>

T_ST01 == <<"S", "T", "0", "1", "-", "0", "0", "1">>

T_short == <<"O", "P", "5", "-", "1", "1", "9">>

H_a == <<"/en/OnePiece/Products", "/a">>

H_b == <<"/en/OnePiece/Products", "/b">>

IMG_x == <<"http://img/x.png">>

IMG_y == <<"http://img/y.png">>

Anchor(h, t) == [href |-> h, text |-> t]

Img(ds, s, ti, at) == [data_src |-> ds, src |-> s, title |-> ti, attrs |-> at]

Row(c, as, is, tl) == [cls |-> c, anchors |-> as, imgs |-> is, tail |-> tl]

SearchRows ==
    { Row("table-body", <<Anchor(H_a, T_OP05 \o <<" ", "x">>)>>,
          <<Img(Some(IMG_x), Some(<<"/placeholder.png">>), None, FALSE),
            Img(None, Some(<<"/en.png">>), Some(<<"English">>), TRUE)>>, <<>>),
      Row("table-body", <<Anchor(H_a \o <<"?", "x=1">>, <<" ">> \o T_op05 \o <<" ">>)>>,
          <<>>, <<>>),
      Row("product-list", <<Anchor(H_b, T_ST01)>>,
          <<Img(None, Some(IMG_y), Some(<<"Japanese">>), TRUE)>>, <<"x">>),
      Row("search-results", <<Anchor(<<"/en/OnePiece", "/a">>, <<"x">>)>>,
          <<Img(None, None, Some(<<"German">>), TRUE)>>, T_op09),
      Row("table-body", <<Anchor(<<BASE_URL>> \o H_a, <<"x", " ">> \o T_OP05 \o <<" ">> \o T_op09)>>,
          <<Img(Some(<<>>), Some(IMG_y), Some(<<"ENGLISH", "Japanese">>), FALSE)>>, <<>>),
      Row("table-body", <<Anchor(<<"/en/Magic", "/a">>, <<"x">>)>>, <<>>, T_OP05),
      Row("table-body", <<Anchor(<<"/en/OnePiece", "/b">>, <<" ">>),
                          Anchor(H_a \o <<"?", "y=2", "?", "x=1">>, T_short)>>,
          <<>>, <<"0", "1">>),
      Row("none", <<Anchor(H_b, <<"x">>)>>, <<>>, <<>>),
      Row("table-body", <<Anchor(<<"..", "/en/OnePiece/Products", "/b">>, <<>>)>>, <<>>, <<>>) }

\* a page of n product rows with pairwise distinct link targets
LongMarkup(n) ==
    [i \in 1..n |->
        Row("table-body",
            <<Anchor(<<"/en/OnePiece/Products", "/" \o ToString(i)>>, <<"x">>)>>,
            <<>>, <<>>)]

RECURSIVE SeqsUpTo(_, _)
SeqsUpTo(S, n) ==
    IF n = 0 THEN {<<>>}
    ELSE LET shorter == SeqsUpTo(S, n - 1)
         IN  shorter \cup {Append(s, x) : s \in shorter, x \in S}

Markups == SeqsUpTo(SearchRows, MaxRows) \cup {LongMarkup(MaxLong)}

Queries == { T_OP05, <<" ">> \o T_ST01 \o <<" ">>, <<"x", " ", "y">>, T_op05 \o <<"x">> }

\* what the outbound fetch does: raise (connection error, timeout) or answer
Raises == [raises |-> TRUE, status |-> 0, html |-> <<>>]

Answer(st, h) == [raises |-> FALSE, status |-> st, html |-> h]

Upstreams == {Raises, Answer(404, <<>>), Answer(503, <<>>)} \cup {Answer(200, h) : h \in Markups}

-----------------------------------------------------------------------------
(* Responses *)

Ok(b) == [status |-> 200, body |-> b, detail |-> "", uncaught |-> FALSE]

HTTPException(code, d) == [status |-> code, body |-> <<>>, detail |-> d, uncaught |-> FALSE]

\* an exception no handler catches: the framework answers 500
Uncaught == [status |-> 500, body |-> <<>>, detail |-> "Internal Server Error", uncaught |-> TRUE]

NoReq == [op |-> "none"]

-----------------------------------------------------------------------------
(* GET /api/search/cardmarket *)

SearchUrl(q) ==
    <<BASE_URL, "/en/OnePiece/Products/Search", "?", "searchString=">> \o quote(q)

\* variant: every upstream failure is absorbed into an empty successful result
search_cardmarket_result_Absorbing(q, up) ==
    IF up.raises \/ up.status # 200 THEN Ok(<<>>)
    ELSE Ok(parse_cardmarket_search(up.html))

\* variant: an empty extraction falls back to a stub built from the query
search_cardmarket_result_WithFallback(q, up) ==
    IF up.raises THEN Uncaught
    ELSE IF up.status # 200 THEN HTTPException(502, "Cardmarket unreachable")
    ELSE LET rs == parse_cardmarket_search(up.html)
             m  == re_search_idcode(q)
         IN  IF rs # <<>> \/ m = None THEN Ok(rs)
             ELSE Ok(<<[id_code |-> Some(upper(m[1])), name |-> Some(strip(q)),
                        language |-> None, image_url |-> None,
                        source_url |-> SearchUrl(q), source |-> "cardmarket"]>>)

search_cardmarket_result(q, up) ==
    IF up.raises THEN Uncaught
    ELSE IF up.status # 200 THEN HTTPException(502, "Cardmarket unreachable")
    ELSE Ok(parse_cardmarket_search(up.html))

search_cardmarket(Qs, Ups) ==
    /\ req = NoReq
    /\ \E q \in Qs, up \in Ups :
        /\ req' = [op |-> "search", q |-> q, up |-> up]
        /\ resp' = search_cardmarket_result(q, up)
        /\ fetched' = <<SearchUrl(q)>>
        /\ UNCHANGED <<store, files>>

-----------------------------------------------------------------------------
(* POST /api/search/by-image *)

\* program constant: "if dist <= 2"
MatchThreshold == 2

\* imagehash.average_hash of an image, as the set of its set bits
average_hash(pix) ==
    CASE pix = "P0" -> {} [] pix = "P2" -> {1, 2} [] pix = "P3" -> {1, 2, 3}
      [] pix = "P1" -> {1}

\* ImageHash.__sub__: the number of differing bits
hash_distance(a, b) == Cardinality((a \ b) \cup (b \ a))

FetchRaises == [raises |-> TRUE, status |-> 0, decodable |-> FALSE, pix |-> "P0"]

FetchAnswer(st, dec, p) == [raises |-> FALSE, status |-> st, decodable |-> dec, pix |-> p]

ImgOutcomes ==
    {FetchRaises, FetchAnswer(404, TRUE, "P0"), FetchAnswer(200, FALSE, "P0")}
        \cup {FetchAnswer(200, TRUE, p) : p \in {"P0", "P2", "P3"}}

CandImageUrls == {IMG_x, IMG_y}

CandRows ==
    { Row("table-body", <<Anchor(H_a, T_OP05)>>,
          <<Img(Some(IMG_x), None, Some(<<"English">>), TRUE)>>, <<>>),
      Row("table-body", <<Anchor(H_b, <<"x">>)>>,
          <<Img(None, Some(IMG_y), Some(<<"Japanese">>), TRUE)>>, <<>>),
      Row("table-body", <<Anchor(H_a, <<"x">>)>>,
          <<Img(Some(IMG_x), None, Some(<<"German">>), TRUE)>>, <<>>),
      Row("table-body", <<Anchor(H_b, <<"x">>)>>,
          <<Img(None, None, Some(<<"English">>), TRUE)>>, <<>>) }

CandUpstreams ==
    {Raises, Answer(503, <<>>)} \cup {Answer(200, h) : h \in SeqsUpTo(CandRows, MaxCandRows)}

\* the uploaded file: its name, whether PIL can open it, and its picture
Upload(fn, v, p) == [filename |-> fn, valid |-> v, pix |-> p]

ImageUploads == {Upload(None, FALSE, "P0"), Upload(None, TRUE, "P0"), Upload(None, TRUE, "P3")}

ImageQueries == {None, Some(<<>>), Some(T_OP05)}

\* variant: the language of a matching candidate is not looked at
candidate_matches_AnyLanguage(target, c, imgFetch) ==
    /\ c.image_url # None
    /\ LET o == imgFetch[c.image_url[1]]
       IN  /\ ~o.raises
           /\ o.status = 200
           /\ o.decodable
           /\ hash_distance(average_hash(target), average_hash(o.pix)) <= MatchThreshold

\* the body of the loop over the candidates: TRUE when c is appended to matched
candidate_matches(target, c, imgFetch) ==
    /\ c.image_url # None
    /\ LET o == imgFetch[c.image_url[1]]
       IN  /\ ~o.raises
           /\ o.status = 200
           /\ o.decodable
           /\ hash_distance(average_hash(target), average_hash(o.pix)) <= MatchThreshold
           /\ c.language \in {Some("EN"), Some("JP")}

search_by_image_result(file, q, up, imgFetch) ==
    IF ~file.valid THEN HTTPException(400, "Invalid image upload")
    ELSE IF q = None \/ q[1] = <<>>
         THEN HTTPException(400, "Image search requires a query to narrow results.")
    ELSE LET candidates == search_cardmarket_result(q[1], up)
         IN  IF candidates.status # 200 THEN candidates
             ELSE Ok(SelectSeq(candidates.body,
                               LAMBDA c : candidate_matches(file.pix, c, imgFetch)))

\* the outbound fetches the handler issues, in order
search_by_image_fetches(file, q, up) ==
    IF ~file.valid \/ q = None \/ q[1] = <<>> THEN <<>>
    ELSE LET candidates == search_cardmarket_result(q[1], up)
             withImg == SelectSeq(candidates.body, LAMBDA c : c.image_url # None)
         IN  <<SearchUrl(q[1])>> \o [i \in 1..Len(withImg) |-> withImg[i].image_url[1]]

search_by_image ==
    /\ req = NoReq
    /\ \E file \in ImageUploads, q \in ImageQueries, up \in CandUpstreams,
          imgFetch \in [CandImageUrls -> ImgOutcomes] :
        /\ req' = [op |-> "by_image", file |-> file, q |-> q, up |-> up, imgFetch |-> imgFetch]
        /\ resp' = search_by_image_result(file, q, up, imgFetch)
        /\ fetched' = search_by_image_fetches(file, q, up)
        /\ UNCHANGED <<store, files>>

-----------------------------------------------------------------------------
(* The search service *)

InitState ==
    /\ store = <<>>
    /\ files = <<>>
    /\ req = NoReq
    /\ resp = Ok(<<>>)
    /\ fetched = <<>>

\* the response is sent and the service waits for the next request
Respond ==
    /\ req # NoReq
    /\ req' = NoReq
    /\ resp' = Ok(<<>>)
    /\ fetched' = <<>>
    /\ UNCHANGED <<store, files>>

SearchNext ==
    \/ search_cardmarket(Queries, Upstreams)
    \/ search_by_image
    \/ Respond

SearchSpec == InitState /\ [][SearchNext]_vars

-----------------------------------------------------------------------------
(* Uploads: POST /api/upload-image *)

\* os.path.splitext(name)[0]: the last extension is dropped, unless it is all
\* there is of the name
splitext_0(fn) ==
    IF Len(fn) > 1 /\ fn[Len(fn)] \in {".png", ".jpg", ".webp"}
    THEN SubSeq(fn, 1, Len(fn) - 1) ELSE fn

\* base_name.replace(" ", "_")
replace_spaces(fn) == [i \in 1..Len(fn) |-> IF fn[i] = " " THEN "_" ELSE fn[i]]

\* os.path.basename: what follows the last "/"
RECURSIVE basename(_)
basename(path) ==
    IF \E i \in 1..Len(path) : path[i] = "/" THEN basename(Tail(path)) ELSE path

\* image.save(out_path, format="WEBP", quality=85): the re-encoded picture
Webp(pix) == <<"webp", pix>>

\* the file name under UPLOAD_DIR that upload_image writes
upload_out_name(file) ==
    LET name == IF file.filename = None \/ file.filename[1] = <<>>
                THEN <<"upload">> ELSE file.filename[1]
    IN  replace_spaces(splitext_0(name)) \o <<".webp">>

UploadFiles ==
    { Upload(Some(<<"a", " ", "b", ".png">>), TRUE, "P0"),
      Upload(Some(<<"a", "_", "b", ".jpg">>), TRUE, "P3"),
      Upload(Some(<<"a", "_", "b", ".jpg">>), FALSE, "P0"),
      Upload(Some(<<"custom_", "1", ".png">>), TRUE, "P3"),
      Upload(None, TRUE, "P0") }

upload_image ==
    /\ req = NoReq
    /\ \E file \in UploadFiles :
        /\ req' = [op |-> "upload", file |-> file]
        /\ IF file.valid
           THEN /\ files' = (upload_out_name(file) :> Webp(file.pix)) @@ files
                /\ resp' = Ok(<<[url |-> <<"/uploads/">> \o basename(upload_out_name(file))]>>)
           ELSE /\ files' = files
                /\ resp' = HTTPException(400, "Invalid image")
        /\ fetched' = <<>>
        /\ UNCHANGED store

-----------------------------------------------------------------------------
(* The collection: GET/POST /api/collection, PUT /api/collection/{id}/image *)

USD == <<"U", "S", "D">>

EUR == <<"E", "U", "R">>

\* variant: quantity is not constrained
CollectionEntry_valid_NoQuantityCheck(quantity, price, currency) ==
    /\ price >= 0
    /\ currency \in {USD, EUR}

\* schemas.CollectionEntry: quantity >= 1, purchase_price >= 0, Currency
CollectionEntry_valid(quantity, price, currency) ==
    /\ quantity >= 1
    /\ price >= 0
    /\ currency \in {USD, EUR}

Payloads ==
    [id_code : {Some(T_OP05)}, name : {Some(<<"x">>)}, language : {None},
     image_url : {Some(IMG_x)}, source_url : {None}, source : {Some("cardmarket")},
     quantity : {0, 1, 2}, purchase_price : {-1, 0},
     purchase_currency : {USD, <<"u", "s", "d">>, <<"e", "u", "r">>, <<"G", "B", "P">>}]

\* the CollectionEntry the handler builds from the payload
collection_entry(p) ==
    [card_id |-> None, id_code |-> p.id_code, name |-> p.name, language |-> p.language,
     source |-> p.source, source_url |-> p.source_url, image_url |-> p.image_url,
     custom_image_url |-> None, quantity |-> p.quantity,
     purchase_price |-> p.purchase_price,
     purchase_currency |-> upper(p.purchase_currency),
     last_known_price |-> None, last_known_currency |-> None]

\* database.create_document: the record is stored under a fresh id
create_document(st, entry) ==
    Append(st, [f \in DOMAIN entry \cup {"_id"} |->
                    IF f = "_id" THEN Len(st) + 1 ELSE entry[f]])

\* database.get_documents("collectionentry", {}): every record, in store order
get_documents(st) == st

add_to_collection ==
    /\ req = NoReq
    /\ \E payload \in Payloads, dbOk \in BOOLEAN :
        LET entry == collection_entry(payload)
            ok == /\ CollectionEntry_valid(entry.quantity, entry.purchase_price,
                                           entry.purchase_currency)
                  /\ dbOk
        IN  /\ ok => Len(store) < MaxEntries
            /\ req' = [op |-> "add", payload |-> payload, dbOk |-> dbOk]
            /\ IF ok
               THEN /\ store' = create_document(store, entry)
                    /\ resp' = Ok(<<[_id |-> ToString(Len(store) + 1)]>>)
               ELSE /\ store' = store
                    /\ resp' = HTTPException(400, "validation or database error")
            /\ fetched' = <<>>
            /\ UNCHANGED files

list_collection ==
    /\ req = NoReq
    /\ \E dbOk \in BOOLEAN :
        /\ req' = [op |-> "list", dbOk |-> dbOk]
        /\ resp' = IF dbOk
                   THEN LET docs == get_documents(store)
                        IN  Ok([i \in 1..Len(docs) |->
                                   [docs[i] EXCEPT !._id = ToString(docs[i]._id)]])
                   ELSE HTTPException(500, "database error")
        /\ fetched' = <<>>
        /\ UNCHANGED <<store, files>>

EntryIds == {"1", "bad"}

\* bson.ObjectId(entry_id): raises unless the string denotes an id
ObjectId_valid(s) == \E n \in 1..(MaxEntries + 2) : ToString(n) = s

ObjectId(s) == CHOOSE n \in 1..(MaxEntries + 2) : ToString(n) = s

\* variant: the filter matches every document
update_one_AllDocuments(st, oid, url) ==
    [i \in 1..Len(st) |-> [st[i] EXCEPT !.custom_image_url = Some(url)]]

\* update_one({"_id": oid}, {"$set": {"custom_image_url": url}})
update_one(st, oid, url) ==
    [i \in 1..Len(st) |->
        IF st[i]._id = oid THEN [st[i] EXCEPT !.custom_image_url = Some(url)] ELSE st[i]]

CustomFiles == {Upload(None, TRUE, "P0"), Upload(None, TRUE, "P2"), Upload(None, FALSE, "P0")}

set_custom_image ==
    /\ req = NoReq
    /\ \E entry_id \in EntryIds, file \in CustomFiles, dbOk \in BOOLEAN :
        LET out_name == <<"custom_", entry_id, ".webp">>
            url == <<"/uploads/">> \o basename(out_name)
        IN  /\ req' = [op |-> "set_image", entry_id |-> entry_id, file |-> file, dbOk |-> dbOk]
            /\ IF ~file.valid
               THEN /\ files' = files
                    /\ store' = store
                    /\ resp' = HTTPException(400, "cannot identify image file")
               ELSE /\ files' = (out_name :> Webp(file.pix)) @@ files
                    /\ IF dbOk /\ ObjectId_valid(entry_id)
                       THEN /\ store' = update_one(store, ObjectId(entry_id), url)
                            /\ resp' = Ok(<<[custom_image_url |-> url]>>)
                       ELSE /\ store' = store
                            /\ resp' = HTTPException(400, "invalid id or database error")
            /\ fetched' = <<>>

ServiceQueries == {T_OP05}

ServiceUpstreams == {Raises, Answer(503, <<>>), Answer(200, LongMarkup(1))}

Next ==
    \/ search_cardmarket(ServiceQueries, ServiceUpstreams)
    \/ upload_image
    \/ list_collection
    \/ add_to_collection
    \/ set_custom_image
    \/ Respond

Spec == InitState /\ [][Next]_vars

-----------------------------------------------------------------------------
(* Properties of the search service, checked under SearchSpec *)

\* the last request was a marketplace search / one that returned a list
IsSearch == req.op = "search"

SearchOk == IsSearch /\ resp.status = 200

UpstreamOk == ~req.up.raises /\ req.up.status = 200

\* the rows of the served page that produce a listing, in page order
LinkedRows == SelectSeq(product_rows(req.up.html), LAMBDA r : row_link(r) # None)

\* the primary fetch+extract path yields no listing
PrimaryZero == IsSearch /\ (~UpstreamOk \/ LinkedRows = <<>>)

Lowercase == {"o", "p", "s", "t", "x", "u", "d", "e", "r", "g", "b", "y"}

Letters == Lowercase \cup {"O", "P", "S", "T", "X", "U", "D", "E", "R", "G", "B", "Y"}

Digits == {"0", "1", "5", "9"}

\* two letters, two digits, a hyphen, three digits, starting at i
TwoLetterCodeAt(t, i) ==
    /\ i + 7 <= Len(t)
    /\ t[i] \in Letters /\ t[i + 1] \in Letters
    /\ t[i + 2] \in Digits /\ t[i + 3] \in Digits /\ t[i + 4] = "-"
    /\ t[i + 5] \in Digits /\ t[i + 6] \in Digits /\ t[i + 7] \in Digits

\* the letters O and P in either case, two digits, a hyphen, three digits
OPCodeAt(t, i) ==
    /\ TwoLetterCodeAt(t, i)
    /\ t[i] \in {"O", "o"} /\ t[i + 1] \in {"P", "p"}

SameIgnoringCase(a, b) ==
    /\ Len(a) = Len(b)
    /\ \A k \in 1..Len(a) : UpperChar(a[k]) = UpperChar(b[k])

\* v is Some(the leftmost code of t, uppercased), or None when t holds no code
IsFirstCodeUppercased(v, t, CodeAt(_, _)) ==
    LET hits == {i \in 1..Len(t) : CodeAt(t, i)}
    IN  IF hits = {} THEN v = None
        ELSE /\ v # None
             /\ \A k \in 1..Len(v[1]) : v[1][k] \notin Lowercase
             /\ \E i \in hits :
                    /\ \A j \in hits : i <= j
                    /\ SameIgnoringCase(v[1], SubSeq(t, i, i + 7))

\* C1 (as claimed): a marketplace search always ends in a successful response
\* carrying a list, never in an error response or an uncaught exception.
C1_SearchNeverFails == IsSearch => resp.status = 200 /\ ~resp.uncaught

\* C1 (amended): the search ends in a successful response carrying a list
\* exactly when the upstream fetch answers 200; a non-200 answer ends in a 502
\* error response, a fetch that raises ends in an uncaught exception.
C1_SearchSucceedsIffUpstream200 ==
    IsSearch =>
        /\ UpstreamOk => resp.status = 200 /\ ~resp.uncaught
        /\ req.up.raises => resp.uncaught /\ resp.status = 500 /\ resp.body = <<>>
        /\ (~req.up.raises /\ req.up.status # 200) =>
               resp.status = 502 /\ ~resp.uncaught /\ resp.body = <<>>

C1_Witness ==
    IsSearch /\ ~req.up.raises /\ req.up.status = 503 /\ resp.status = 502

\* what the fallback policy of the specification would return for query q
FallbackClaimed(q) ==
    LET hits == {i \in 1..Len(q) : TwoLetterCodeAt(q, i)}
    IN  IF hits = {} THEN <<>>
        ELSE LET i == CHOOSE k \in hits : \A j \in hits : k <= j
             IN  <<[id_code |-> Some(upper(SubSeq(q, i, i + 7))), name |-> Some(strip(q)),
                    language |-> None, image_url |-> None,
                    source_url |-> SearchUrl(q), source |-> "cardmarket"]>>

\* C2 (as claimed): when the primary path yields no listing the result is
\* decided by the query alone: one stub listing when the query holds an id
\* code, the empty list otherwise, in a successful response.
C2_FallbackDecidedByQuery ==
    PrimaryZero => resp.status = 200 /\ resp.body = FallbackClaimed(req.q)

\* C2 (amended): when the primary path yields no listing no stub is ever
\* synthesized from the query: after a 200 answer with an empty extraction the
\* result is the empty list whatever the query, and after a transport failure
\* or a non-200 answer no list is returned at all (error response).
C2_NoFallbackStub ==
    PrimaryZero =>
        /\ resp.body = <<>>
        /\ UpstreamOk => resp.status = 200
        /\ ~UpstreamOk => resp.status \in {500, 502}

C2_Witness ==
    /\ PrimaryZero /\ UpstreamOk
    /\ FallbackClaimed(req.q) # <<>>
    /\ resp.status = 200 /\ resp.body = <<>>

\* C3 (as claimed): the returned list holds no two entries with equal sourceUrl.
C3_NoDuplicateSourceUrl ==
    SearchOk =>
        \A i, j \in 1..Len(resp.body) :
            i # j => resp.body[i].source_url # resp.body[j].source_url

\* C3 (amended): nothing is deduplicated: every selected row with a matching
\* anchor yields its own listing, so a sourceUrl occurs in the list as many
\* times as there are such rows resolving to it.
C3_OneListingPerRowAndUrl ==
    SearchOk =>
        \A u \in {resolve_href(row_link(LinkedRows[k])[1].href) : k \in 1..Len(LinkedRows)}
                 \cup {resp.body[i].source_url : i \in 1..Len(resp.body)} :
            Cardinality({i \in 1..Len(resp.body) : resp.body[i].source_url = u})
              = Cardinality({k \in 1..Len(LinkedRows) :
                                resolve_href(row_link(LinkedRows[k])[1].href) = u})

C3_Witness ==
    /\ SearchOk
    /\ \E i, j \in 1..Len(resp.body) :
           /\ i < j
           /\ resp.body[i].source_url = resp.body[j].source_url
           /\ row_link(LinkedRows[i])[1].href # row_link(LinkedRows[j])[1].href

\* every anchor of the page whose link target matches the site path prefix
MatchingAnchors ==
    {<<r, a>> \in (1..Len(req.up.html)) \X (1..2) :
        /\ a <= Len(req.up.html[r].anchors)
        /\ href_has_onepiece(req.up.html[r].anchors[a].href)}

DistinctTargets ==
    \A x, y \in MatchingAnchors :
        x # y => req.up.html[x[1]].anchors[x[2]].href # req.up.html[y[1]].anchors[y[2]].href

C5_AbsoluteWithoutQuery ==
    SearchOk =>
        \A i \in 1..Len(resp.body) :
            LET u == resp.body[i].source_url
            IN  /\ u[1] = BASE_URL
                /\ \A k \in 2..Len(u) : u[k] # BASE_URL /\ u[k] # "?"

\* C6 (as claimed): the idCode of a listing is the leftmost two-letter code of
\* its text, uppercased, and is absent when the text holds none.
C6_TwoLetterCode ==
    SearchOk =>
        \A i \in 1..Len(resp.body) :
            IsFirstCodeUppercased(resp.body[i].id_code, row_text(LinkedRows[i]), TwoLetterCodeAt)

\* C6 (amended): the idCode of a listing is the leftmost substring of its
\* row's text made of the letters OP (in any case), two digits, a hyphen and
\* three digits, uppercased; it is absent when the text holds no such substring.
C6_OPCode ==
    SearchOk =>
        /\ Len(resp.body) = Len(LinkedRows)
        /\ \A i \in 1..Len(resp.body) :
            IsFirstCodeUppercased(resp.body[i].id_code, row_text(LinkedRows[i]), OPCodeAt)

C6_Witness ==
    /\ SearchOk
    /\ \E i \in 1..Len(resp.body) :
           /\ resp.body[i].id_code = Some(T_OP05)
           /\ \E k \in 1..(Len(row_text(LinkedRows[i])) - 7) :
                  SubSeq(row_text(LinkedRows[i]), k, k + 7) = T_op05

RECURSIVE IsSubseq(_, _)
IsSubseq(a, b) ==
    IF a = <<>> THEN TRUE
    ELSE IF b = <<>> THEN FALSE
    ELSE IF Head(a) = Head(b) THEN IsSubseq(Tail(a), Tail(b))
    ELSE IsSubseq(a, Tail(b))

\* C10: an image search with an invalid image or without a query ends in a 400
\* before any outbound fetch; otherwise, when the marketplace search returns,
\* it succeeds whatever the candidates' image fetches do and returns a
\* subsequence of the candidates, each with an imageUrl whose image was
\* fetched with status 200 at hash distance <= 2 and with language EN or JP.
C10_ImageSearch ==
    req.op = "by_image" =>
        LET rejected == ~req.file.valid \/ req.q = None \/ req.q[1] = <<>>
            cands == search_cardmarket_result(req.q[1], req.up)
        IN  /\ rejected => resp.status = 400 /\ fetched = <<>>
            /\ (~rejected /\ cands.status = 200) =>
                   /\ resp.status = 200
                   /\ IsSubseq(resp.body, cands.body)
                   /\ \A i \in 1..Len(resp.body) :
                          LET c == resp.body[i]
                          IN  /\ c.image_url # None
                              /\ c.image_url[1] \in DOMAIN req.imgFetch
                              /\ LET o == req.imgFetch[c.image_url[1]]
                                 IN  /\ ~o.raises /\ o.status = 200 /\ o.decodable
                                     /\ hash_distance(average_hash(req.file.pix),
                                                      average_hash(o.pix)) <= 2
                              /\ c.language \in {Some("EN"), Some("JP")}

C10_Witness ==
    /\ req.op = "by_image" /\ req.file.valid /\ req.q = Some(T_OP05)
    /\ resp.status = 200
    /\ Len(resp.body) = 1
    /\ Len(search_cardmarket_result(req.q[1], req.up).body) = 2
    /\ \E u \in CandImageUrls : req.imgFetch[u].raises

-----------------------------------------------------------------------------
(* Properties of the collection and the uploads, checked under Spec *)

StoreValid(st) ==
    \A i \in 1..Len(st) :
        /\ st[i].quantity >= 1
        /\ st[i].purchase_price >= 0
        /\ st[i].purchase_currency \in {USD, EUR}

\* C7 (as claimed): every stored entry has quantity >= 1, purchasePrice >= 0
\* and purchaseCurrency in {USD, EUR}, and an add request that violates one of
\* these is answered 400 and creates no record.
C7_ViolatingRequestRejected ==
    [][ /\ StoreValid(store')
        /\ ( /\ req'.op = "add"
             /\ \/ req'.payload.quantity < 1
                \/ req'.payload.purchase_price < 0
                \/ req'.payload.purchase_currency \notin {USD, EUR} )
           => (resp'.status = 400 /\ store' = store) ]_vars

\* C7 (amended): every stored entry has quantity >= 1, purchasePrice >= 0 and
\* purchaseCurrency in {USD, EUR}; an add request with quantity < 1, with
\* purchasePrice < 0, or whose purchaseCurrency is in no letter case USD or
\* EUR is answered 400 and creates no record (a currency given in lower case
\* is accepted and stored in upper case).
C7_RejectedUnlessCurrencyInAnyCase ==
    [][ /\ StoreValid(store')
        /\ ( /\ req'.op = "add"
             /\ \/ req'.payload.quantity < 1
                \/ req'.payload.purchase_price < 0
                \/ \A c \in {USD, EUR} :
                       ~SameIgnoringCase(req'.payload.purchase_currency, c) )
           => (resp'.status = 400 /\ store' = store) ]_vars

C7_Witness ==
    /\ req.op = "add" /\ req.payload.quantity = 0 /\ req.dbOk
    /\ resp.status = 400
    /\ Len(store) = 1
    /\ store[1].purchase_currency = EUR

\* C8: no operation deletes an entry or lowers their number, and the only
\* field of an existing entry that changes is customImageUrl, changed by the
\* set-custom-image operation on the entry with the given id.
C8_OnlyCustomImageChanges ==
    [][ /\ Len(store') >= Len(store)
        /\ \A i \in 1..Len(store) :
              \E j \in 1..Len(store') :
                 /\ store'[j]._id = store[i]._id
                 /\ [store'[j] EXCEPT !.custom_image_url = store[i].custom_image_url]
                       = store[i]
                 /\ store'[j].custom_image_url # store[i].custom_image_url =>
                       /\ req'.op = "set_image"
                       /\ req'.entry_id = ToString(store[i]._id) ]_vars

C8_Witness ==
    /\ req.op = "set_image" /\ resp.status = 200
    /\ Len(store) = 2
    /\ store[1].custom_image_url # None
    /\ store[2].custom_image_url = None

\* C9 (as claimed): requests share no mutable state: the content retrievable
\* at a URL that a request returned is what that request stored there,
\* whatever other requests run before it is read.
C9_UploadsIndependent ==
    [][ \A n \in DOMAIN files : n \in DOMAIN files' /\ files'[n] = files[n] ]_vars

====
